---- MODULE Spec2Model ----
(***************************************************************************)
(* Model of manage_opencode_projects.py: the wrapper that extracts the     *)
(* --bun option, resolves the bun executable, normalises a leading "--"    *)
(* and runs src/bin/opencode-manager.ts as a child process, together with  *)
(* the pure classifier is_cli_subcommand.                                  *)
(*                                                                         *)
(* A Python str is modelled as the sequence of its characters, so that     *)
(* startswith, == and split are computed and not assumed.  An optional     *)
(* value is <<>> (None) or <<x>>.                                          *)
(***************************************************************************)
EXTENDS Integers, Sequences, FiniteSets, TLC

VARIABLES
    argv,           \* main: the argument vector handed to main
    args,           \* main: args = list(argv)
    i,              \* main: loop index of the --bun scan (0-based)
    filtered_args,  \* main: tokens kept by the scan
    bun_exe_path,   \* main: captured --bun value, None or Some(str)
    bun_exe,        \* main: result of find_bun, None until resolved
    which_called,   \* find_bun: shutil.which("bun") has been called
    which_result,   \* find_bun: what shutil.which returned, None or Some(path)
    args_list,      \* run_entrypoint: the normalised arguments
    cmd,            \* run_entrypoint: the command given to subprocess.run
    child_cwd,      \* run_entrypoint: cwd given to subprocess.run
    spawned,        \* a child process was started
    child_code,     \* the exit code the child terminated with
    ret,            \* value returned by main
    outcome,        \* how the run ended: "running", "returned", "SystemExit", "OSError"
    stderr,         \* message written by the interpreter on SystemExit(str)
    exit_status,    \* exit status of the wrapper process
    pc,             \* position in main
    cls_args,       \* is_cli_subcommand: its argument sequence
    cls_pos,        \* is_cli_subcommand: number of tokens already skipped
    cls_result,     \* is_cli_subcommand: returned value
    cls_pc          \* position in is_cli_subcommand

vars == << argv, args, i, filtered_args, bun_exe_path, bun_exe, which_called,
           which_result, args_list, cmd, child_cwd, spawned, child_code, ret,
           outcome, stderr, exit_status, pc,
           cls_args, cls_pos, cls_result, cls_pc >>

mainVars == << argv, args, i, filtered_args, bun_exe_path, bun_exe,
               which_called, which_result, args_list, cmd, child_cwd, spawned,
               child_code, ret, outcome, stderr, exit_status, pc >>

clsVars == << cls_args, cls_pos, cls_result, cls_pc >>

----------------------------------------------------------------------------
(* Bounds *)

MaxArgs == 4        \* longest argument vector given to main
MaxClsArgs == 4     \* longest argument sequence given to is_cli_subcommand

----------------------------------------------------------------------------
(* Optional values and strings *)

None == <<>>
Some(x) == <<x>>

\* Python truthiness of an Optional[str]: None and "" are falsy
Truthy(o) == o # None /\ Len(o[1]) > 0

\* s.startswith(p)
StartsWith(s, p) == Len(s) >= Len(p) /\ SubSeq(s, 1, Len(p)) = p

\* 0-based indexing of a Python list
At(s, k) == s[k + 1]

\* Literal tokens
Dash        == << "-" >>
DashDash    == << "-", "-" >>
Bun         == << "-", "-", "b", "u", "n" >>
BunEqPrefix == << "-", "-", "b", "u", "n", "=" >>
CustomPath  == << "/", "c", "u", "s", "t", "o", "m", "/", "p", "a", "t", "h" >>
BunEqCustom == BunEqPrefix \o CustomPath
BunEqAB     == BunEqPrefix \o << "a", "=", "b" >>
Help        == << "-", "-", "h", "e", "l", "p" >>
Foo         == << "-", "-", "f", "o", "o" >>
Empty       == << >>
List        == << "l", "i", "s", "t" >>
Projects    == << "p", "r", "o", "j", "e", "c", "t", "s" >>
Sessions    == << "s", "e", "s", "s", "i", "o", "n", "s" >>
Chat        == << "c", "h", "a", "t" >>
TokensCmd   == << "t", "o", "k", "e", "n", "s" >>
WhichBun    == << "/", "b", "i", "n", "/", "b", "u", "n" >>

\* "src/bin/opencode-manager.ts"
Entrypoint ==
    << "s", "r", "c", "/", "b", "i", "n", "/", "o", "p", "e", "n", "c", "o",
       "d", "e", "-", "m", "a", "n", "a", "g", "e", "r", ".", "t", "s" >>

\* Path(__file__).resolve().parent, computed once at import
PROJECT_DIR == << "/", "o", "p", "t", "/", "o", "c" >>

NotFoundMessage == "bun executable not found. Please install Bun."

\* exit status of the interpreter when SystemExit carries a str
SystemExitStrStatus == 1
\* exit status of the interpreter when an exception is not caught
UncaughtExceptionStatus == 1

\* tokens main is run on
ArgTokens == { Bun, BunEqCustom, BunEqAB, BunEqPrefix, CustomPath, DashDash,
               Help, List, Empty }

\* tokens is_cli_subcommand is run on
ClsTokens == { Foo, Dash, DashDash, Projects, Sessions, Chat, TokensCmd,
               List, Empty }

\* exit codes a child can terminate with
ChildCodes == { 0, 1, 2, 255 }

SeqsUpTo(S, n) == UNION { [1..m -> S] : m \in 0..n }

----------------------------------------------------------------------------
(* main: initial state *)

ClsIdle ==
    /\ cls_args = << >>
    /\ cls_pos = 0
    /\ cls_result = None
    /\ cls_pc = "idle"

Init ==
    /\ argv \in SeqsUpTo(ArgTokens, MaxArgs)
    /\ args = argv
    /\ i = 0
    /\ filtered_args = << >>
    /\ bun_exe_path = None
    /\ bun_exe = None
    /\ which_called = FALSE
    /\ which_result = None
    /\ args_list = << >>
    /\ cmd = << >>
    /\ child_cwd = None
    /\ spawned = FALSE
    /\ child_code = None
    /\ ret = None
    /\ outcome = "running"
    /\ stderr = None
    /\ exit_status = None
    /\ pc = "scan"
    /\ ClsIdle

----------------------------------------------------------------------------
(* main: the --bun extraction loop *)

\* args[i] == "--bun" and i + 1 < len(args)
IsBunPair == At(args, i) = Bun /\ i + 1 < Len(args)

\* args[i].startswith("--bun=")
IsBunEq == StartsWith(At(args, i), BunEqPrefix)

BunEqValueWhole(tok) == tok

\* tok.split("=", 1)[1]: everything after the first "="
BunEqValue(tok) ==
    LET k == CHOOSE n \in 1..Len(tok) :
                 tok[n] = "=" /\ \A m \in 1..(n - 1) : tok[m] # "="
    IN  SubSeq(tok, k + 1, Len(tok))

ScanBunPair ==
    /\ pc = "scan"
    /\ i < Len(args)
    /\ IsBunPair
    /\ bun_exe_path' = Some(At(args, i + 1))
    /\ i' = i + 2
    /\ UNCHANGED << argv, args, filtered_args, bun_exe, which_called,
                    which_result, args_list, cmd, child_cwd, spawned,
                    child_code, ret, outcome, stderr, exit_status, pc >>
    /\ UNCHANGED clsVars

ScanBunEq ==
    /\ pc = "scan"
    /\ i < Len(args)
    /\ ~IsBunPair
    /\ IsBunEq
    /\ bun_exe_path' = Some(BunEqValue(At(args, i)))
    /\ i' = i + 1
    /\ UNCHANGED << argv, args, filtered_args, bun_exe, which_called,
                    which_result, args_list, cmd, child_cwd, spawned,
                    child_code, ret, outcome, stderr, exit_status, pc >>
    /\ UNCHANGED clsVars

KeepPrepend(kept, tok) == << tok >> \o kept

\* filtered_args.append(args[i])
Keep(kept, tok) == Append(kept, tok)

ScanOther ==
    /\ pc = "scan"
    /\ i < Len(args)
    /\ ~IsBunPair
    /\ ~IsBunEq
    /\ filtered_args' = Keep(filtered_args, At(args, i))
    /\ i' = i + 1
    /\ UNCHANGED << argv, args, bun_exe_path, bun_exe, which_called,
                    which_result, args_list, cmd, child_cwd, spawned,
                    child_code, ret, outcome, stderr, exit_status, pc >>
    /\ UNCHANGED clsVars

\* the loop condition fails; main goes on to call find_bun
ScanDone ==
    /\ pc = "scan"
    /\ ~(i < Len(args))
    /\ pc' = "find_bun"
    /\ UNCHANGED << argv, args, i, filtered_args, bun_exe_path, bun_exe,
                    which_called, which_result, args_list, cmd, child_cwd,
                    spawned, child_code, ret, outcome, stderr, exit_status >>
    /\ UNCHANGED clsVars

----------------------------------------------------------------------------
(* find_bun *)

\* if explicit_path: return explicit_path
FindBunExplicit ==
    /\ pc = "find_bun"
    /\ Truthy(bun_exe_path)
    /\ bun_exe' = Some(bun_exe_path[1])
    /\ pc' = "run_entrypoint"
    /\ UNCHANGED << argv, args, i, filtered_args, bun_exe_path, which_called,
                    which_result, args_list, cmd, child_cwd, spawned,
                    child_code, ret, outcome, stderr, exit_status >>
    /\ UNCHANGED clsVars

\* bun_path = shutil.which("bun"); if bun_path: return bun_path
FindBunWhich ==
    /\ pc = "find_bun"
    /\ ~Truthy(bun_exe_path)
    /\ which_called' = TRUE
    /\ which_result' = Some(WhichBun)
    /\ bun_exe' = Some(WhichBun)
    /\ pc' = "run_entrypoint"
    /\ UNCHANGED << argv, args, i, filtered_args, bun_exe_path, args_list,
                    cmd, child_cwd, spawned, child_code, ret, outcome, stderr,
                    exit_status >>
    /\ UNCHANGED clsVars

FindBunNotFoundFallback ==
    /\ pc = "find_bun"
    /\ ~Truthy(bun_exe_path)
    /\ which_called' = TRUE
    /\ which_result' = None
    /\ bun_exe' = Some(<< "b", "u", "n" >>)
    /\ pc' = "run_entrypoint"
    /\ UNCHANGED << argv, args, i, filtered_args, bun_exe_path, args_list,
                    cmd, child_cwd, spawned, child_code, ret, outcome, stderr,
                    exit_status >>
    /\ UNCHANGED clsVars

\* shutil.which found nothing: raise SystemExit("bun executable not found...")
FindBunNotFound ==
    /\ pc = "find_bun"
    /\ ~Truthy(bun_exe_path)
    /\ which_called' = TRUE
    /\ which_result' = None
    /\ outcome' = "SystemExit"
    /\ stderr' = Some(NotFoundMessage)
    /\ exit_status' = Some(SystemExitStrStatus)
    /\ pc' = "done"
    /\ UNCHANGED << argv, args, i, filtered_args, bun_exe_path, bun_exe,
                    args_list, cmd, child_cwd, spawned, child_code, ret >>
    /\ UNCHANGED clsVars

----------------------------------------------------------------------------
(* run_entrypoint *)

NormalizeAll(a) == SelectSeq(a, LAMBDA t : t # DashDash)

\* drop a leading "--"
Normalize(a) == IF a # << >> /\ a[1] = DashDash THEN Tail(a) ELSE a

CmdNoEntrypoint(exe, al) == << exe >> \o al

\* cmd = [bun_exe, "src/bin/opencode-manager.ts"] + args_list
Cmd(exe, al) == << exe, Entrypoint >> \o al

ReturnCodeTruthy(c) == IF c = 0 THEN 0 ELSE 1

\* return process.returncode
ReturnCode(c) == c

\* subprocess.run starts the child, which terminates with code c;
\* main returns and sys.exit(main()) ends the wrapper
RunEntrypointExit ==
    /\ pc = "run_entrypoint"
    /\ args_list' = Normalize(filtered_args)
    /\ cmd' = Cmd(bun_exe[1], args_list')
    /\ child_cwd' = Some(PROJECT_DIR)
    /\ spawned' = TRUE
    /\ \E c \in ChildCodes :
          /\ child_code' = Some(c)
          /\ ret' = Some(ReturnCode(c))
          /\ exit_status' = Some(ReturnCode(c))
    /\ outcome' = "returned"
    /\ pc' = "done"
    /\ UNCHANGED << argv, args, i, filtered_args, bun_exe_path, bun_exe,
                    which_called, which_result, stderr >>
    /\ UNCHANGED clsVars

\* subprocess.run cannot start the child and raises OSError, which nothing
\* catches: the interpreter prints a traceback and ends with status 1
RunEntrypointOSError ==
    /\ pc = "run_entrypoint"
    /\ args_list' = Normalize(filtered_args)
    /\ cmd' = Cmd(bun_exe[1], args_list')
    /\ child_cwd' = Some(PROJECT_DIR)
    /\ outcome' = "OSError"
    /\ exit_status' = Some(UncaughtExceptionStatus)
    /\ pc' = "done"
    /\ UNCHANGED << argv, args, i, filtered_args, bun_exe_path, bun_exe,
                    which_called, which_result, spawned, child_code, ret,
                    stderr >>
    /\ UNCHANGED clsVars

Next ==
    \/ ScanBunPair
    \/ ScanBunEq
    \/ ScanOther
    \/ ScanDone
    \/ FindBunExplicit
    \/ FindBunWhich
    \/ FindBunNotFound
    \/ RunEntrypointExit
    \/ RunEntrypointOSError

Spec == Init /\ [][Next]_vars

----------------------------------------------------------------------------
(* is_cli_subcommand *)

CLI_SUBCOMMANDS_Short == { Projects, Sessions, Chat }

\* CLI_SUBCOMMANDS = frozenset({"projects", "sessions", "chat", "tokens"})
CLI_SUBCOMMANDS == { Projects, Sessions, Chat, TokensCmd }

IsFlagDoubleDash(arg) == StartsWith(arg, DashDash)

\* arg.startswith("-")
IsFlag(arg) == StartsWith(arg, Dash)

MainIdle ==
    /\ argv = << >>
    /\ args = << >>
    /\ i = 0
    /\ filtered_args = << >>
    /\ bun_exe_path = None
    /\ bun_exe = None
    /\ which_called = FALSE
    /\ which_result = None
    /\ args_list = << >>
    /\ cmd = << >>
    /\ child_cwd = None
    /\ spawned = FALSE
    /\ child_code = None
    /\ ret = None
    /\ outcome = "running"
    /\ stderr = None
    /\ exit_status = None
    /\ pc = "idle"

InitClassify ==
    /\ MainIdle
    /\ cls_args \in SeqsUpTo(ClsTokens, MaxClsArgs)
    /\ cls_pos = 0
    /\ cls_result = None
    /\ cls_pc = "loop"

\* if arg.startswith("-"): continue
ClsSkip ==
    /\ cls_pc = "loop"
    /\ cls_pos < Len(cls_args)
    /\ IsFlag(At(cls_args, cls_pos))
    /\ cls_pos' = cls_pos + 1
    /\ UNCHANGED << cls_args, cls_result, cls_pc >>
    /\ UNCHANGED mainVars

\* return arg in CLI_SUBCOMMANDS
ClsReturn ==
    /\ cls_pc = "loop"
    /\ cls_pos < Len(cls_args)
    /\ ~IsFlag(At(cls_args, cls_pos))
    /\ cls_result' = Some(At(cls_args, cls_pos) \in CLI_SUBCOMMANDS)
    /\ cls_pc' = "done"
    /\ UNCHANGED << cls_args, cls_pos >>
    /\ UNCHANGED mainVars

\* the loop ends without a positional argument: return False
ClsExhausted ==
    /\ cls_pc = "loop"
    /\ ~(cls_pos < Len(cls_args))
    /\ cls_result' = Some(FALSE)
    /\ cls_pc' = "done"
    /\ UNCHANGED << cls_args, cls_pos >>
    /\ UNCHANGED mainVars

NextClassify ==
    \/ ClsSkip
    \/ ClsReturn
    \/ ClsExhausted

SpecClassify == InitClassify /\ [][NextClassify]_vars

----------------------------------------------------------------------------
(* Properties of main *)

\* the arguments handed to the child: cmd without executable and entrypoint
Forwarded == SubSeq(cmd, 3, Len(cmd))

\* C1: whenever the child is launched and terminates with exit code c, main
\* returns exactly c and the wrapper exits with c, for zero and non-zero c.
C1_ExitCodePropagated ==
    child_code # None =>
        /\ spawned
        /\ outcome = "returned"
        /\ ret = child_code
        /\ exit_status = child_code

C1_Witness ==
    /\ pc = "done"
    /\ spawned
    /\ child_code = Some(255)
    /\ ret = Some(255)
    /\ Len(argv) > 0

\* C2: in every run that reaches the spawn step the command is the resolved
\* executable, then "src/bin/opencode-manager.ts", then the filtered
\* arguments after normalisation in order, and the cwd is PROJECT_DIR.
C2_ChildCommand ==
    cmd # << >> =>
        /\ Len(cmd) >= 2
        /\ cmd[1] = (IF Truthy(bun_exe_path) THEN bun_exe_path[1]
                                             ELSE which_result[1])
        /\ cmd[2] = Entrypoint
        /\ Forwarded = args_list
        /\ \/ Forwarded = filtered_args
           \/ filtered_args # << >> /\ Forwarded = Tail(filtered_args)
        /\ child_cwd = Some(PROJECT_DIR)

C2_Witness ==
    /\ spawned
    /\ bun_exe_path = Some(CustomPath)
    /\ cmd = << CustomPath, Entrypoint, List, Help >>
    /\ child_cwd = Some(PROJECT_DIR)

\* number of consecutive "--bun" tokens directly before position j of a
BunRunBefore(a, j) ==
    Cardinality({ r \in 1..(j - 1) : \A m \in (j - r)..(j - 1) : a[m] = Bun })

\* position j of a is taken by a --bun occurrence: as the value token that
\* follows a "--bun", as a "--bun" that has a following token, or as a
\* "--bun=VALUE" token
Extracted(a, j) ==
    \/ BunRunBefore(a, j) % 2 = 1
    \/ /\ BunRunBefore(a, j) % 2 = 0
       /\ \/ a[j] = Bun /\ j < Len(a)
          \/ StartsWith(a[j], BunEqPrefix)

\* the k-th smallest element of a set of numbers
Nth(S, k) == CHOOSE x \in S : Cardinality({ y \in S : y < x }) = k - 1

\* C3: the forwarded arguments are the input tokens at an increasing set of
\* positions; a position left out holds a token extracted as a --bun
\* occurrence, or is the stripped "--" in front of every forwarded token.
C3_OrderPreserved ==
    cmd # << >> =>
        \E S \in SUBSET (1..Len(argv)) :
            /\ Len(Forwarded) = Cardinality(S)
            /\ \A k \in 1..Len(Forwarded) : Forwarded[k] = argv[Nth(S, k)]
            /\ \A j \in (1..Len(argv)) \ S :
                  \/ Extracted(argv, j)
                  \/ /\ argv[j] = DashDash
                     /\ \A m \in S : j < m
                     /\ \A m \in 1..(j - 1) : Extracted(argv, m)

C3_Witness ==
    /\ spawned
    /\ argv = << List, Bun, CustomPath, Help >>
    /\ Forwarded = << List, Help >>

\* the --bun tokens of the input that carry /custom/path
C4_CustomOccurrences ==
    { j \in 1..Len(argv) :
        \/ argv[j] = BunEqCustom
        \/ argv[j] = Bun /\ j < Len(argv) /\ argv[j + 1] = CustomPath }

\* the tokens of the input that are "--bun" or begin with "--bun="
C4_OptionTokens ==
    { j \in 1..Len(argv) : argv[j] = Bun \/ StartsWith(argv[j], BunEqPrefix) }

C4_UsesCustomPath ==
    /\ bun_exe_path = Some(CustomPath)
    /\ bun_exe = Some(CustomPath)
    /\ ~which_called
    /\ cmd # << >> => cmd[1] = CustomPath

\* C4 as stated: an input with "--bun /custom/path" or "--bun=/custom/path"
\* exactly once, whatever the other tokens, resolves to /custom/path without
\* a PATH search.
C4_Original ==
    (pc \in { "run_entrypoint", "done" } /\ Cardinality(C4_CustomOccurrences) = 1)
        => C4_UsesCustomPath

\* C4 (amended): an input with "--bun /custom/path" or "--bun=/custom/path"
\* exactly once and no other token that is "--bun" or begins with "--bun="
\* resolves to /custom/path without a PATH search.
C4_Amended ==
    (/\ pc \in { "run_entrypoint", "done" }
     /\ Cardinality(C4_CustomOccurrences) = 1
     /\ Cardinality(C4_OptionTokens) = 1)
        => C4_UsesCustomPath

C4_Witness ==
    /\ spawned
    /\ argv = << Help, BunEqCustom, List >>
    /\ cmd = << CustomPath, Entrypoint, Help, List >>
    /\ ~which_called

\* C5: the arguments passed to the child contain no token equal to "--bun"
\* and no token beginning with "--bun=".
C5_NeverForwarded ==
    \A k \in 3..Len(cmd) :
        cmd[k] # Bun /\ ~StartsWith(cmd[k], BunEqPrefix)

\* C6: when no override is effective and the PATH search finds nothing, the
\* wrapper ends at once with a non-zero status and the install message and
\* never spawns a child; a command is only built after the executable is
\* resolved, and the PATH search only happens without an effective override.
C6_RuntimeNotFound ==
    /\ (which_called /\ which_result = None) =>
            /\ pc = "done"
            /\ outcome = "SystemExit"
            /\ exit_status # None
            /\ exit_status[1] # 0
            /\ stderr = Some(NotFoundMessage)
            /\ ~spawned
            /\ cmd = << >>
    /\ which_called => ~Truthy(bun_exe_path)
    /\ (spawned \/ cmd # << >>) => bun_exe # None

C6_Witness ==
    /\ bun_exe_path = Some(Empty)
    /\ which_called
    /\ which_result = None
    /\ outcome = "SystemExit"
    /\ exit_status = Some(1)
    /\ ~spawned

\* C7: when the child cannot be started the wrapper ends with a non-zero
\* status that differs from the status used for "runtime not found".
C7_LaunchFailureDistinct ==
    outcome = "OSError" =>
        /\ exit_status # None
        /\ exit_status[1] # 0
        /\ exit_status[1] # SystemExitStrStatus

\* C10: exactly one token is dropped, and only when the first kept token is
\* "--"; later "--" tokens are forwarded unchanged.
C10_LegacyNormalization ==
    cmd # << >> =>
        /\ IF filtered_args # << >> /\ filtered_args[1] = DashDash
              THEN Forwarded = Tail(filtered_args)
              ELSE Forwarded = filtered_args
        /\ argv = << DashDash, Help >> => Forwarded = << Help >>
        /\ argv = << Bun, CustomPath, DashDash, Help >> => Forwarded = << Help >>
        /\ argv = << DashDash, DashDash, List >> => Forwarded = << DashDash, List >>
        /\ argv = << List, DashDash, Help >> => Forwarded = << List, DashDash, Help >>

C10_Witness ==
    /\ spawned
    /\ argv = << Bun, CustomPath, DashDash, Help >>
    /\ filtered_args = << DashDash, Help >>
    /\ Forwarded = << Help >>

----------------------------------------------------------------------------
(* Properties of is_cli_subcommand *)

SubcommandNames == { Projects, Sessions, Chat, TokensCmd }

\* positions of cls_args whose token does not begin with "-"
NonFlagPositions == { k \in 1..Len(cls_args) : ~StartsWith(cls_args[k], Dash) }

\* positions of cls_args that hold a subcommand name
NamePositions == { k \in 1..Len(cls_args) : cls_args[k] \in SubcommandNames }

Min(S) == CHOOSE x \in S : \A y \in S : x <= y

\* C8: is_cli_subcommand returns true exactly when a token not beginning
\* with "-" exists and the first such token is projects, sessions, chat or
\* tokens; the scan stops at that token, so later tokens are never read.
C8_Classification ==
    cls_pc = "done" =>
        /\ cls_result = Some(/\ NonFlagPositions # {}
                             /\ cls_args[Min(NonFlagPositions)] \in SubcommandNames)
        /\ NonFlagPositions # {} => cls_pos = Min(NonFlagPositions) - 1
        /\ NonFlagPositions = {} => cls_result = Some(FALSE)

C8_Witness ==
    /\ cls_pc = "done"
    /\ cls_args = << Foo, TokensCmd, List >>
    /\ cls_result = Some(TRUE)

\* a subcommand name occurs in cls_args, and only directly after a flag
OnlyAsFlagValue ==
    /\ NamePositions # {}
    /\ \A k \in NamePositions : k > 1 /\ StartsWith(cls_args[k - 1], Dash)

\* C9 as stated: a subcommand name that occurs only as the token directly
\* after a flag yields interactive mode.
C9_Original ==
    (cls_pc = "done" /\ OnlyAsFlagValue) => cls_result = Some(FALSE)

\* C9 (amended): a subcommand name that occurs only as the token directly
\* after a flag yields subcommand mode when every token before the first
\* such name begins with "-", and interactive mode otherwise.
C9_Amended ==
    (cls_pc = "done" /\ OnlyAsFlagValue) =>
        cls_result = Some(\A m \in 1..(Min(NamePositions) - 1) :
                              StartsWith(cls_args[m], Dash))

C9_Witness ==
    /\ cls_pc = "done"
    /\ cls_args = << Foo, Projects >>
    /\ cls_result = Some(TRUE)

====
